---- MODULE Spec2Model ----
(***************************************************************************)
(* Model of caldp/create_previews.py: classification of FITS inputs by     *)
(* header, invocation of the external renderers, collection of the         *)
(* produced previews and their transfer (local copy or S3 upload).         *)
(*                                                                         *)
(* Strings on which the code computes (file names, URIs, header values)    *)
(* are sequences of character codes.  A directory is the sequence of its   *)
(* path segments from the root; a path is [dir, name], and dir = <<>> is a *)
(* path relative to the working directory (a bare file name).              *)
(***************************************************************************)
EXTENDS Integers, Sequences, FiniteSets, TLC

VARIABLES
    input_uri_prefix,  \* argv[1]
    output_uri_prefix, \* argv[2]: a directory (local) or an s3:// URI
    ipppssoot,         \* argv[3]
    cwd,               \* os.getcwd()
    fs,                \* file system: path -> number of bytes (0 = empty)
    pc,                \* position of the run
    err,               \* the exception that ended the run, "" if none
    mode,              \* "", "local" or "s3": branch taken by main
    input_paths,       \* the enumerated FITS inputs
    idx,               \* index of the next input in input_paths
    processed,         \* inputs for which generate_previews returned, and how
    last,              \* locals of the latest generate_previews call
    output_paths,      \* local mode: artifacts of the current input left to copy
    listed,            \* output_paths came from os.listdir
    headers,           \* the header contents the FITS files of this run can have
    copies,            \* local mode: the shutil.copy calls made so far
    previews,          \* s3 mode: result of get_previews
    uploads            \* s3 mode: the upload_fileobj calls made so far

vars == <<input_uri_prefix, output_uri_prefix, ipppssoot, cwd, fs, pc, err, mode,
          input_paths, idx, processed, last, output_paths, listed, headers,
          copies, previews, uploads>>

----------------------------------------------------------------------------
\* Bounds of the model

\* at most this many *.fits files lie in the input directory
MaxInputs == 2
\* NAXIS of header unit 1 ranges over 1..MaxNaxis
MaxNaxis == 3

----------------------------------------------------------------------------
\* String helpers (Python str operations on sequences of character codes)

RECURSIVE StartsWith(_, _)
\* str.startswith
StartsWith(s, p) ==
    IF p = <<>> THEN TRUE
    ELSE IF s = <<>> THEN FALSE
    ELSE Head(s) = Head(p) /\ StartsWith(Tail(s), Tail(p))

\* str.endswith
EndsWith(s, p) ==
    /\ Len(s) >= Len(p)
    /\ SubSeq(s, Len(s) - Len(p) + 1, Len(s)) = p

\* s[n:]
DropFirst(s, n) == IF n >= Len(s) THEN <<>> ELSE SubSeq(s, n + 1, Len(s))

\* s[0:n]
TakeFirst(s, n) == IF n >= Len(s) THEN s ELSE SubSeq(s, 1, n)

\* one character of str.lower
LowerChar(c) == IF c \in 65..90 THEN c + 32 ELSE c

\* str.lower
Lower(s) == [k \in 1..Len(s) |-> LowerChar(s[k])]

\* the characters str.strip removes
Whitespace == {9, 10, 11, 12, 13, 32}

RECURSIVE LStrip(_)
LStrip(s) == IF s # <<>> /\ Head(s) \in Whitespace THEN LStrip(Tail(s)) ELSE s

RECURSIVE RStrip(_)
RStrip(s) ==
    IF s # <<>> /\ s[Len(s)] \in Whitespace THEN RStrip(SubSeq(s, 1, Len(s) - 1)) ELSE s

\* str.strip
Strip(s) == RStrip(LStrip(s))

RECURSIVE SplitAcc(_, _, _)
SplitAcc(s, sep, cur) ==
    IF s = <<>> THEN <<cur>>
    ELSE IF Head(s) = sep THEN <<cur>> \o SplitAcc(Tail(s), sep, <<>>)
    ELSE SplitAcc(Tail(s), sep, Append(cur, Head(s)))

\* str.split(sep) for a one-character separator
Split(s, sep) == SplitAcc(s, sep, <<>>)

RECURSIVE Join(_, _)
\* sep.join(parts)
Join(parts, sep) ==
    IF parts = <<>> THEN <<>>
    ELSE IF Len(parts) = 1 THEN parts[1]
    ELSE parts[1] \o <<sep>> \o Join(Tail(parts), sep)

RECURSIVE LexLess(_, _)
\* a < b for Python strings (code point order, a proper prefix is smaller)
LexLess(a, b) ==
    IF b = <<>> THEN FALSE
    ELSE IF a = <<>> THEN TRUE
    ELSE IF Head(a) # Head(b) THEN Head(a) < Head(b)
    ELSE LexLess(Tail(a), Tail(b))

RECURSIVE Insert(_, _)
Insert(x, s) ==
    IF s = <<>> THEN <<x>>
    ELSE IF LexLess(x.name, Head(s).name) THEN <<x>> \o s
    ELSE <<Head(s)>> \o Insert(x, Tail(s))

RECURSIVE Sorted(_)
\* list(sorted(paths)) for paths of one directory
Sorted(s) == IF s = <<>> THEN <<>> ELSE Insert(Head(s), Sorted(Tail(s)))

\* all orders in which a directory scan can return the set S
Orders(S) ==
    {s \in [1..Cardinality(S) -> S] : \A a, b \in 1..Cardinality(S) : a # b => s[a] # s[b]}

RECURSIVE SomeOrder(_)
\* one order of the set S (whatever the scan yields; callers sort it)
SomeOrder(S) ==
    IF S = {} THEN <<>>
    ELSE LET x == CHOOSE y \in S : TRUE IN <<x>> \o SomeOrder(S \ {x})

\* a list back to front
Reverse(s) == [k \in 1..Len(s) |-> s[Len(s) + 1 - k]]

RECURSIVE NonEmpty(_)
\* the non-empty strings of a list
NonEmpty(parts) ==
    IF parts = <<>> THEN <<>>
    ELSE IF Head(parts) = <<>> THEN NonEmpty(Tail(parts))
    ELSE <<Head(parts)>> \o NonEmpty(Tail(parts))

----------------------------------------------------------------------------
\* Paths

\* os.path.join(dir, name)
PathJoin(d, n) == [dir |-> d, name |-> n]

\* os.path.abspath of a directory string (no "." or ".." segments)
AbsPath(s, wd) ==
    (IF s # <<>> /\ Head(s) = 47 THEN <<>> ELSE wd) \o NonEmpty(Split(s, 47))

\* os.path.basename
Basename(p) == p.name

\* the file a path denotes for open() and shutil.copy
Resolve(p, wd) == IF p.dir = <<>> THEN [dir |-> wd, name |-> p.name] ELSE p

\* os.path.splitext(filename)[0]: up to the last dot, leading dots kept
SplitextRoot(n) ==
    LET dots == {k \in 2..Len(n) : n[k] = 46 /\ \E j \in 1..(k - 1) : n[j] # 46}
    IN  IF dots = {} THEN n
        ELSE SubSeq(n, 1, (CHOOSE k \in dots : \A j \in dots : j <= k) - 1)

\* filename.split('.')[0]: up to the first dot
FirstDotPart(n) == Split(n, 46)[1]

\* glob of "<dir>/<prefix>*<suffix>": '*' does not match a leading dot
Glob(f, d, prefix, suffix) ==
    {p \in DOMAIN f :
        /\ p.dir = d
        /\ StartsWith(p.name, prefix)
        /\ EndsWith(p.name, suffix)
        /\ Len(p.name) >= Len(prefix) + Len(suffix)
        /\ (prefix = <<>> => Head(p.name) # 46)}

\* os.listdir(dir): bare names
ListDir(f, d) == {[dir |-> <<>>, name |-> p.name] : p \in {q \in DOMAIN f : q.dir = d}}

\* open(path, "wb").write(bytes)
WriteFile(f, p, n) == [q \in DOMAIN f \cup {p} |-> IF q = p THEN n ELSE f[q]]

----------------------------------------------------------------------------
\* Program constants

\* OUTPUT_FORMATS = [("_thumb", 128), ("", -1)]
OUTPUT_FORMATS ==
    << [suffix |-> <<95,116,104,117,109,98>>, size |-> 128],
       [suffix |-> <<>>, size |-> -1] >>

DotFits == <<46,102,105,116,115>>   \* ".fits"
DotPng  == <<46,112,110,103>>       \* ".png"
DotJpg  == <<46,106,112,103>>       \* ".jpg"
S3Scheme == <<115,51,58,47,47>>     \* "s3://"


\* the exit statuses a renderer process can report (negative: killed by a signal)
ReturnCodes == {-9, 0, 1}

----------------------------------------------------------------------------
\* Environment: the inputs of a run

\* names of the FITS files that may lie in the input directory
FitsNames ==
    { <<105,97,48,49,48,49,48,95,102,108,116,46,102,105,116,115>>,          \* "ia01010_flt.fits"
      <<111,100,102,97,48,49,48,51,48,95,120,49,100,46,102,105,116,115>>,   \* "odfa01030_x1d.fits"
      <<111,100,102,97,48,49,48,51,48,95,102,108,116,46,102,105,116,115>> } \* "odfa01030_flt.fits"

\* "ODFA01030"
Ipppssoot == <<79,68,70,65,48,49,48,51,48>>

\* "s3://hstdp-batch-outputs/data/stis/odfa01030/previews/" (the docstring's example)
DocUri ==
    <<115,51,58,47,47,104,115,116,100,112,45,98,97,116,99,104,45,111,117,116,112,117,116,115,
      47,100,97,116,97,47,115,116,105,115,47,111,100,102,97,48,49,48,51,48,47,112,114,101,118,
      105,101,119,115,47>>

\* destinations of an s3 run: the example with and without its trailing slash
S3Outputs == { DocUri, SubSeq(DocUri, 1, Len(DocUri) - 1) }

\* "s3://hstdp-batch-inputs/odfa01030"
S3Input ==
    <<115,51,58,47,47,104,115,116,100,112,45,98,97,116,99,104,45,105,110,112,117,116,115,47,
      111,100,102,97,48,49,48,51,48>>

\* local directory arguments: "/in", "/out"
LocalInput == <<47,105,110>>
LocalOutputs == { <<47,105,110>>, <<47,111,117,116>> }

\* working directories: "/in", "/work"
InDir   == << <<105,110>> >>
WorkDir == << <<119,111,114,107>> >>

\* s3 mode: data_dir = <cwd>/<ipppssoot>, preview_dir = <data_dir>/previews
DataDirOf(wd, id) == Append(wd, id)

PreviewDirOf(wd, id) == Append(DataDirOf(wd, id), <<112,114,101,118,105,101,119,115>>)

\* files that may already lie in the previews directory: "zz.png", "log.txt"
StaleNames == { <<122,122,46,112,110,103>>, <<108,111,103,46,116,120,116>> }

HeaderKeys == {"NAXIS", "XTENSION", "EXTNAME", "INSTRUME"}

\* a file without header unit 1
NoHdu1 ==
    [hdu1 |-> FALSE, keys |-> {}, NAXIS |-> 0, XTENSION |-> "", EXTNAME |-> <<>>,
     INSTRUME |-> <<>>]

\* header unit 1 with all four keys: EXTNAME in {"ASN", "SCI", " ASN "},
\* INSTRUME in {"", "ACS", " L", "o"}
FullHeaders ==
    [hdu1 : {TRUE}, keys : {HeaderKeys}, NAXIS : 1..MaxNaxis,
     XTENSION : {"BINTABLE", "IMAGE", "TABLE"},
     EXTNAME : {<<65,83,78>>, <<83,67,73>>, <<32,65,83,78,32>>},
     INSTRUME : {<<>>, <<65,67,83>>, <<32,76>>, <<111>>}]

\* the same without the INSTRUME key
NoInstrumeHeaders ==
    {[h EXCEPT !.keys = HeaderKeys \ {"INSTRUME"}] : h \in {g \in FullHeaders : g.INSTRUME = <<>>}}

\* header unit 1 lacking one of the keys read without a default
MissingKeyHeaders ==
    {[hdu1 |-> TRUE, keys |-> HeaderKeys \ {k}, NAXIS |-> 2, XTENSION |-> "IMAGE",
      EXTNAME |-> <<83,67,73>>, INSTRUME |-> <<65,67,83>>] : k \in {"NAXIS", "XTENSION", "EXTNAME"}}

Headers == FullHeaders \cup NoInstrumeHeaders \cup MissingKeyHeaders \cup {NoHdu1}

\* one header unit 1 with all four keys
Hdu1(naxis, ext, extname, instrume) ==
    [hdu1 |-> TRUE, keys |-> HeaderKeys, NAXIS |-> naxis, XTENSION |-> ext,
     EXTNAME |-> extname, INSTRUME |-> instrume]

\* the headers of the files of a whole run: a table, an association table, an
\* image with and without INSTRUME, a one-dimensional extension, and two
\* files whose header unit 1 cannot be read
RunHeaders ==
    { Hdu1(2, "BINTABLE", <<83,67,73>>, <<65,67,83>>),
      Hdu1(2, "BINTABLE", <<65,83,78>>, <<65,67,83>>),
      Hdu1(MaxNaxis, "IMAGE", <<83,67,73>>, <<65,67,83>>),
      [Hdu1(2, "IMAGE", <<83,67,73>>, <<>>) EXCEPT !.keys = HeaderKeys \ {"INSTRUME"}],
      Hdu1(1, "IMAGE", <<83,67,73>>, <<65,67,83>>),
      [Hdu1(2, "IMAGE", <<83,67,73>>, <<65,67,83>>) EXCEPT !.keys = HeaderKeys \ {"EXTNAME"}],
      NoHdu1 }

\* what one fitscut process does: its exit status and the length of its stdout
ProfileOutcomes ==
    {[rc |-> 0, n |-> 0], [rc |-> 0, n |-> 1], [rc |-> 1, n |-> 0], [rc |-> -9, n |-> 0]}

\* what make_hst_spec_previews does: its exit status and the files it wrote
\* (none, <root>.png, or <root>.png and <root>_thumb.png); and the order in which
\* os.listdir then returns the directory (arbitrary: the model takes the
\* ascending and the descending order)
SpectralOutcomes ==
    {[rc |-> r, nfiles |-> 0, desc |-> FALSE] : r \in ReturnCodes \ {0}}
        \cup [rc : {0}, nfiles : 0..2, desc : BOOLEAN]

NoRun == [img |-> <<>>, spec |-> [rc |-> 0, nfiles |-> 0, desc |-> FALSE]]

----------------------------------------------------------------------------
\* The functions of create_previews.py

\* generate_image_preview: [raised, fs, wrote]
generate_image_preview(f, output_path, o) ==
    IF o.rc > 0
    THEN [raised |-> TRUE, fs |-> f, wrote |-> FALSE]
    ELSE [raised |-> FALSE, fs |-> WriteFile(f, output_path, o.n), wrote |-> TRUE]

RECURSIVE ImageLoop(_, _, _, _, _, _, _)
\* the for loop of generate_image_previews from profile k on
ImageLoop(f, preview_dir, filename_base, outcomes, k, output_paths_, attempts) ==
    IF k > Len(OUTPUT_FORMATS)
    THEN [fs |-> f, returned |-> output_paths_, attempts |-> attempts]
    ELSE LET fmt == OUTPUT_FORMATS[k]
             output_path == PathJoin(preview_dir, filename_base \o fmt.suffix \o DotJpg)
             r == generate_image_preview(f, output_path, outcomes[k])
             a == [suffix |-> fmt.suffix, size |-> fmt.size, path |-> output_path,
                   rc |-> outcomes[k].rc, wrote |-> r.wrote]
         IN  ImageLoop(r.fs, preview_dir, filename_base, outcomes, k + 1,
                       IF r.raised THEN output_paths_ ELSE Append(output_paths_, output_path),
                       Append(attempts, a))

\* generate_image_previews
generate_image_previews(f, preview_dir, filename_base, outcomes) ==
    ImageLoop(f, preview_dir, filename_base, outcomes, 1, <<>>, <<>>)

\* the files the spectral renderer writes into preview_dir for an input
SpectralFiles(input_path, preview_dir, nfiles) ==
    LET root == SplitextRoot(Basename(input_path))
        names == <<root \o DotPng, root \o <<95,116,104,117,109,98>> \o DotPng>>
    IN  {PathJoin(preview_dir, names[k]) : k \in 1..nfiles}

RECURSIVE WriteAll(_, _)
WriteAll(f, S) ==
    IF S = {} THEN f
    ELSE LET p == CHOOSE q \in S : TRUE IN WriteAll(WriteFile(f, p, 1), S \ {p})

\* generate_spectral_previews: the renderer runs, then os.listdir(preview_dir)
generate_spectral_previews(f, input_path, preview_dir, o) ==
    LET f2 == WriteAll(f, SpectralFiles(input_path, preview_dir, o.nfiles))
        asc == Sorted(SomeOrder(ListDir(f2, preview_dir)))
    IN  IF o.rc # 0
        THEN [fs |-> f2, returned |-> <<>>, listed |-> FALSE]
        ELSE [fs |-> f2, returned |-> IF o.desc THEN Reverse(asc) ELSE asc, listed |-> TRUE]

\* HeaderError with EXTNAME read through a default
HeaderErrorExtnameDefaulted(hdr) ==
    IF ~hdr.hdu1 THEN "IndexError"
    ELSE IF "NAXIS" \notin hdr.keys THEN "KeyError"
    ELSE IF "XTENSION" \notin hdr.keys THEN "KeyError"
    ELSE ""

\* the exception the header reads of generate_previews raise, "" if none
HeaderError(hdr) ==
    IF ~hdr.hdu1 THEN "IndexError"
    ELSE IF "NAXIS" \notin hdr.keys THEN "KeyError"
    ELSE IF "XTENSION" \notin hdr.keys THEN "KeyError"
    ELSE IF "EXTNAME" \notin hdr.keys THEN "KeyError"
    ELSE ""

\* instr_char of generate_previews
InstrChar(hdr, filename_base) ==
    LET c == IF "INSTRUME" \in hdr.keys /\ Strip(hdr.INSTRUME) # <<>>
             THEN Strip(hdr.INSTRUME)[1]
             ELSE filename_base[1]
    IN  LowerChar(c)

\* Classify with the image branch testing naxis == 2
ClassifyImageNaxis2(naxis, ext, extname, instr_char) ==
    IF naxis = 2 /\ ext = "BINTABLE" /\ extname # <<65,83,78>> THEN "Spectral"
    ELSE IF naxis = 2 /\ ext = "IMAGE" /\ instr_char \notin {108, 111} THEN "Imaging"
    ELSE "Unknown"

\* the if / elif / else of generate_previews
Classify(naxis, ext, extname, instr_char) ==
    IF naxis = 2 /\ ext = "BINTABLE" /\ extname # <<65,83,78>> THEN "Spectral"
    ELSE IF naxis >= 2 /\ ext = "IMAGE" /\ instr_char \notin {108, 111} THEN "Imaging"
    ELSE "Unknown"

\* the renderer runs generate_previews can ask for on this header
RendererRuns(hdr, filename_base) ==
    IF HeaderError(hdr) # "" THEN {NoRun}
    ELSE LET c == Classify(hdr.NAXIS, hdr.XTENSION, Strip(hdr.EXTNAME),
                           InstrChar(hdr, filename_base))
         IN  IF c = "Imaging"
             THEN {[NoRun EXCEPT !.img = <<a, b>>] : a, b \in ProfileOutcomes}
             ELSE IF c = "Spectral"
             THEN {[NoRun EXCEPT !.spec = s] : s \in SpectralOutcomes}
             ELSE {NoRun}

\* generate_previews without the try / except around generate_image_preview:
\* the RuntimeError of a failed profile escapes
generate_previews_no_except(f, input_path, preview_dir, filename_base, hdr, run) ==
    IF HeaderError(hdr) # ""
    THEN [raised |-> HeaderError(hdr), class |-> "", instr_char |-> 0, attempts |-> <<>>,
          returned |-> <<>>, listed |-> FALSE, fs |-> f]
    ELSE LET instr_char == InstrChar(hdr, filename_base)
             class == Classify(hdr.NAXIS, hdr.XTENSION, Strip(hdr.EXTNAME), instr_char)
         IN  IF class = "Spectral"
             THEN LET r == generate_spectral_previews(f, input_path, preview_dir, run.spec)
                  IN  [raised |-> "", class |-> class, instr_char |-> instr_char,
                       attempts |-> <<[rc |-> run.spec.rc]>>,
                       returned |-> r.returned, listed |-> r.listed,
                       fs |-> r.fs]
             ELSE IF class = "Imaging"
             THEN LET r == generate_image_previews(f, preview_dir, filename_base, run.img)
                  IN  [raised |-> IF \E k \in 1..Len(r.attempts) : r.attempts[k].rc > 0
                                  THEN "RuntimeError" ELSE "",
                       class |-> class, instr_char |-> instr_char,
                       attempts |-> r.attempts, returned |-> r.returned, listed |-> FALSE,
                       fs |-> r.fs]
             ELSE [raised |-> "", class |-> class, instr_char |-> instr_char,
                   attempts |-> <<>>, returned |-> <<>>, listed |-> FALSE, fs |-> f]

\* generate_previews: [raised, class, instr_char, attempts, returned, listed, fs]
generate_previews(f, input_path, preview_dir, filename_base, hdr, run) ==
    IF HeaderError(hdr) # ""
    THEN [raised |-> HeaderError(hdr), class |-> "", instr_char |-> 0, attempts |-> <<>>,
          returned |-> <<>>, listed |-> FALSE, fs |-> f]
    ELSE LET instr_char == InstrChar(hdr, filename_base)
             class == Classify(hdr.NAXIS, hdr.XTENSION, Strip(hdr.EXTNAME), instr_char)
         IN  IF class = "Spectral"
             THEN LET r == generate_spectral_previews(f, input_path, preview_dir, run.spec)
                  IN  [raised |-> "", class |-> class, instr_char |-> instr_char,
                       attempts |-> <<[rc |-> run.spec.rc]>>,
                       returned |-> r.returned, listed |-> r.listed,
                       fs |-> r.fs]
             ELSE IF class = "Imaging"
             THEN LET r == generate_image_previews(f, preview_dir, filename_base, run.img)
                  IN  [raised |-> "", class |-> class, instr_char |-> instr_char,
                       attempts |-> r.attempts, returned |-> r.returned, listed |-> FALSE,
                       fs |-> r.fs]
             ELSE [raised |-> "", class |-> class, instr_char |-> instr_char,
                   attempts |-> <<>>, returned |-> <<>>, listed |-> FALSE, fs |-> f]

\* get_inputs
get_inputs(f, id, data_dir) ==
    Sorted(SomeOrder(Glob(f, data_dir, TakeFirst(Lower(id), 5), DotFits)))

\* get_previews without the final sort
get_previews_unsorted(f, preview_dir) ==
    Sorted(SomeOrder(Glob(f, preview_dir, <<>>, DotPng)))
        \o Sorted(SomeOrder(Glob(f, preview_dir, <<>>, DotJpg)))

\* get_previews
get_previews(f, preview_dir) ==
    Sorted(SomeOrder(Glob(f, preview_dir, <<>>, DotPng))
           \o SomeOrder(Glob(f, preview_dir, <<>>, DotJpg)))

\* bucket and path of upload_previews
UploadBucket(uri) == Split(DropFirst(uri, 5), 47)[1]

UploadPath(uri) == Join(Tail(Split(DropFirst(uri, 5), 47)), 47)

\* objectname of upload_previews
ObjectName(uri, preview) == UploadPath(uri) \o <<47>> \o Basename(preview)


----------------------------------------------------------------------------
\* State machine of one run of main()

\* `last` before any call of generate_previews, and after its locals are gone
NoCall ==
    [called |-> FALSE, input |-> [dir |-> <<>>, name |-> <<>>], base |-> <<>>,
     hdr |-> NoHdu1, raised |-> "", class |-> "", instr_char |-> 0,
     attempts |-> <<>>, returned |-> <<>>, listed |-> FALSE]

\* a file system holding the files of S, one byte each
FilesOf(S) == [p \in S |-> 1]

InitLocal(max) ==
    /\ input_uri_prefix = LocalInput
    /\ output_uri_prefix \in LocalOutputs
    /\ cwd \in {InDir, WorkDir}
    /\ \E F \in SUBSET FitsNames :
          /\ Cardinality(F) <= max
          /\ fs = FilesOf({PathJoin(InDir, n) : n \in F})

InitS3(max) ==
    /\ input_uri_prefix = S3Input
    /\ output_uri_prefix \in S3Outputs
    /\ cwd = WorkDir
    /\ \E F \in SUBSET FitsNames, St \in {{}, StaleNames} :
          /\ Cardinality(F) <= max
          /\ fs = FilesOf({PathJoin(DataDirOf(WorkDir, Ipppssoot), n) : n \in F}
                          \cup {PathJoin(PreviewDirOf(WorkDir, Ipppssoot), n) : n \in St})

\* the state when main is entered, with at most max FITS files whose headers are in H
InitWith(max, H) ==
    /\ InitLocal(max) \/ InitS3(max)
    /\ headers = H
    /\ ipppssoot = Ipppssoot
    /\ pc = "main"
    /\ err = ""
    /\ mode = ""
    /\ input_paths = <<>>
    /\ idx = 1
    /\ processed = <<>>
    /\ last = NoCall
    /\ output_paths = <<>>
    /\ listed = FALSE
    /\ copies = <<>>
    /\ previews = <<>>
    /\ uploads = <<>>

Init == InitWith(MaxInputs, RunHeaders)

\* a run over at most one FITS file with any header
InitClassify == InitWith(1, Headers)

\* input_uri_prefix.split(":")[-1]
AfterLastColon(s) == LET parts == Split(s, 58) IN parts[Len(parts)]

\* main, up to the first iteration of the loop over the inputs
Main ==
    /\ pc = "main"
    /\ IF StartsWith(input_uri_prefix, S3Scheme)
       THEN /\ mode' = "s3"
            /\ input_paths' = get_inputs(fs, ipppssoot, DataDirOf(cwd, ipppssoot))
       ELSE /\ mode' = "local"
            /\ input_paths' \in
                   Orders(Glob(fs, AbsPath(AfterLastColon(input_uri_prefix), cwd), <<>>, DotFits))
    /\ pc' = "gen"
    /\ UNCHANGED <<headers, input_uri_prefix, output_uri_prefix, ipppssoot, cwd, fs, err, idx,
                   processed, last, output_paths, listed, copies, previews, uploads>>

\* preview_dir and filename_base that the loop body passes to generate_previews
OutputDirFor(input_path) ==
    IF mode = "local" THEN input_path.dir ELSE PreviewDirOf(cwd, ipppssoot)

FilenameBaseFor(input_path) ==
    IF mode = "local" THEN SplitextRoot(Basename(input_path))
    ELSE FirstDotPart(Basename(input_path))

\* how a returned call of generate_previews went, for the record in `processed`
OutcomeOf(r) ==
    IF r.class = "Unknown" THEN "Unknown"
    ELSE IF \E k \in 1..Len(r.attempts) : r.attempts[k].rc # 0 THEN "RenderFailure"
    ELSE "Rendered"

\* one iteration of the loop over input_paths: the call of generate_previews
GeneratePreviews ==
    /\ pc = "gen"
    /\ idx <= Len(input_paths)
    /\ LET input_path == input_paths[idx]
           base == FilenameBaseFor(input_path)
       IN  \E hdr \in headers : \E run \in RendererRuns(hdr, base) :
             LET r == generate_previews(fs, input_path, OutputDirFor(input_path), base, hdr, run)
             IN  /\ last' = [called |-> TRUE, input |-> input_path, base |-> base, hdr |-> hdr,
                             raised |-> r.raised, class |-> r.class,
                             instr_char |-> r.instr_char, attempts |-> r.attempts,
                             returned |-> r.returned, listed |-> r.listed]
                 /\ fs' = r.fs
                 /\ copies' = <<>>
                 /\ IF r.raised # ""
                    THEN /\ pc' = "error"
                         /\ err' = r.raised
                         /\ UNCHANGED <<idx, processed, output_paths, listed>>
                    ELSE /\ err' = err
                         /\ idx' = idx + 1
                         /\ processed' = Append(processed,
                                [input |-> input_path, outcome |-> OutcomeOf(r)])
                         /\ IF mode = "local"
                            THEN /\ output_paths' = r.returned
                                 /\ listed' = r.listed
                                 /\ pc' = IF r.returned = <<>> THEN "gen" ELSE "copy"
                            ELSE /\ pc' = "gen"
                                 /\ UNCHANGED <<output_paths, listed>>
    /\ UNCHANGED <<headers, input_uri_prefix, output_uri_prefix, ipppssoot, cwd, mode, input_paths,
                   previews, uploads>>

\* what shutil.copy(src, dst) does when nothing else goes wrong
CopyResult(f, src, dst) ==
    IF src \notin DOMAIN f THEN "FileNotFoundError"
    ELSE IF src = dst THEN "SameFileError"
    ELSE "ok"

\* the except clause catching OSError, the base class of SameFileError
SwallowedOSError == {"SameFileError", "FileNotFoundError", "OSError"}

\* the exceptions the except clause around shutil.copy swallows
Swallowed == {"SameFileError"}

\* local mode: one iteration of the loop over output_paths
LocalCopy ==
    /\ pc = "copy"
    /\ output_paths # <<>>
    /\ \E io \in {"ok", "OSError"} :
         LET output_path == Head(output_paths)
             output_uri == PathJoin(AbsPath(output_uri_prefix, cwd), Basename(output_path))
             src == Resolve(output_path, cwd)
             res0 == CopyResult(fs, src, output_uri)
             res == IF res0 = "ok" THEN io ELSE res0
             rest == Tail(output_paths)
         IN  /\ (res0 # "ok" => io = "ok")
             /\ copies' = Append(copies, [path |-> output_path, src |-> src,
                                          dst |-> output_uri, result |-> res])
             /\ fs' = IF res = "ok" THEN WriteFile(fs, output_uri, fs[src]) ELSE fs
             /\ last' = NoCall
             /\ IF res = "ok" \/ res \in Swallowed
                THEN /\ output_paths' = rest
                     /\ pc' = IF rest = <<>> THEN "gen" ELSE "copy"
                     /\ err' = err
                ELSE /\ pc' = "error"
                     /\ err' = res
                     /\ UNCHANGED output_paths
    /\ UNCHANGED <<headers, input_uri_prefix, output_uri_prefix, ipppssoot, cwd, mode, input_paths,
                   idx, processed, listed, previews, uploads>>

\* local mode: the loop over input_paths is exhausted, create_previews_local returns
LocalReturn ==
    /\ pc = "gen"
    /\ mode = "local"
    /\ idx > Len(input_paths)
    /\ pc' = "done"
    /\ last' = NoCall
    /\ UNCHANGED <<headers, input_uri_prefix, output_uri_prefix, ipppssoot, cwd, fs, err, mode,
                   input_paths, idx, processed, output_paths, listed, copies, previews,
                   uploads>>

\* s3 mode: the loop over input_paths is exhausted, get_previews is called
GetPreviews ==
    /\ pc = "gen"
    /\ mode = "s3"
    /\ idx > Len(input_paths)
    /\ previews' = get_previews(fs, PreviewDirOf(cwd, ipppssoot))
    /\ pc' = IF previews' = <<>> THEN "done" ELSE "upload"
    /\ last' = NoCall
    /\ UNCHANGED <<headers, input_uri_prefix, output_uri_prefix, ipppssoot, cwd, fs, err, mode,
                   input_paths, idx, processed, output_paths, listed, copies, uploads>>

\* s3 mode: one iteration of the loop of upload_previews
UploadPreview ==
    /\ pc = "upload"
    /\ Len(uploads) < Len(previews)
    /\ \E res \in {"ok", "UploadError"} :
         LET preview == previews[Len(uploads) + 1]
         IN  /\ uploads' = Append(uploads,
                    [preview |-> preview,
                     exists |-> Resolve(preview, cwd) \in DOMAIN fs,
                     size |-> IF Resolve(preview, cwd) \in DOMAIN fs
                              THEN fs[Resolve(preview, cwd)] ELSE 0,
                     bucket |-> UploadBucket(output_uri_prefix),
                     objectname |-> ObjectName(output_uri_prefix, preview),
                     result |-> res])
             /\ IF res = "ok"
                THEN /\ pc' = IF Len(uploads') = Len(previews) THEN "done" ELSE "upload"
                     /\ err' = err
                ELSE /\ pc' = "error"
                     /\ err' = res
    /\ UNCHANGED <<headers, input_uri_prefix, output_uri_prefix, ipppssoot, cwd, fs, mode,
                   input_paths, idx, processed, last, output_paths, listed, copies,
                   previews>>

Next ==
    \/ Main
    \/ GeneratePreviews
    \/ LocalCopy
    \/ LocalReturn
    \/ GetPreviews
    \/ UploadPreview

Spec == Init /\ [][Next]_vars

SpecClassify == InitClassify /\ [][Next]_vars

TypeOK ==
    /\ pc \in {"main", "gen", "copy", "upload", "done", "error"}
    /\ mode \in {"", "local", "s3"}
    /\ idx \in 1..(MaxInputs + 2)


----------------------------------------------------------------------------
\* Properties

\* header unit 1 and the three keys read without a default are there
HeaderReadable(h) == h.hdu1 /\ {"NAXIS", "XTENSION", "EXTNAME"} \subseteq h.keys

\* the extension name of a header is ASN (as written in FullHeaders, padded or not)
IsAsn(h) == h.EXTNAME \in {<<65,83,78>>, <<32,65,83,78,32>>}

\* the classification the decision table of section 4.1 gives
TableClass(h, instr_char) ==
    CASE h.NAXIS = 2 /\ h.XTENSION = "BINTABLE" /\ ~IsAsn(h) -> "Spectral"
      [] ~(h.NAXIS = 2 /\ h.XTENSION = "BINTABLE" /\ ~IsAsn(h))
            /\ h.NAXIS >= 2 /\ h.XTENSION = "IMAGE" /\ instr_char \notin {108, 111} -> "Imaging"
      [] OTHER -> "Unknown"

\* C1: for every readable header, generate_previews classifies as the ordered
\* decision table says: Spectral for NAXIS = 2, BINTABLE, extension name not ASN,
\* whatever the instrument character; else Imaging for NAXIS >= 2, IMAGE,
\* instrument character not l or o; else Unknown, and then no renderer is run
\* and no artifact is returned.
C1_DecisionTable ==
    (last.called /\ HeaderReadable(last.hdr)) =>
        /\ last.raised = ""
        /\ last.class = TableClass(last.hdr, last.instr_char)
        /\ (last.class = "Unknown" => last.attempts = <<>> /\ last.returned = <<>>)
        /\ (last.class = "Spectral" => Len(last.attempts) = 1)
        /\ (last.class = "Imaging" => Len(last.attempts) = Len(OUTPUT_FORMATS))

\* a table classified Spectral although its instrument character is l
C1_Witness ==
    /\ last.called
    /\ last.class = "Spectral"
    /\ last.instr_char = 108
    /\ last.hdr.INSTRUME = <<32,76>>

\* C2 as stated: a file without header unit 1, or without NAXIS, XTENSION or
\* EXTNAME in it, is classified Unknown, yields no artifact and does not end the
\* run; a missing or empty INSTRUME is defaulted to the first character of the
\* base name.
C2_Original ==
    /\ (last.called /\ ~HeaderReadable(last.hdr)) =>
          /\ pc # "error"
          /\ last.class = "Unknown"
          /\ last.returned = <<>>
    /\ (last.called /\ HeaderReadable(last.hdr)
            /\ ("INSTRUME" \notin last.hdr.keys \/ last.hdr.INSTRUME = <<>>)) =>
          last.instr_char = LowerChar(last.base[1])

\* C2 amended: a file without header unit 1 (IndexError), or without NAXIS,
\* XTENSION or EXTNAME in it (KeyError), makes generate_previews raise: nothing
\* is rendered or returned for it and the run ends in that error; only a missing
\* or empty INSTRUME is defaulted, to the lower-cased first character of the
\* base name, and a non-empty INSTRUME is not.
C2_Amended ==
    /\ (last.called /\ ~HeaderReadable(last.hdr)) =>
          /\ pc = "error"
          /\ err = (IF last.hdr.hdu1 THEN "KeyError" ELSE "IndexError")
          /\ last.raised = err
          /\ last.attempts = <<>>
          /\ last.returned = <<>>
          /\ \A k \in 1..Len(processed) : processed[k].input # last.input
    /\ (last.called /\ HeaderReadable(last.hdr)) =>
          /\ last.raised = ""
          /\ pc # "error"
          /\ ("INSTRUME" \notin last.hdr.keys \/ last.hdr.INSTRUME = <<>>) =>
                last.instr_char = LowerChar(last.base[1])
          /\ ("INSTRUME" \in last.hdr.keys /\ last.hdr.INSTRUME = <<65,67,83>>) =>
                last.instr_char = 97
          /\ ("INSTRUME" \in last.hdr.keys /\ last.hdr.INSTRUME = <<32,76>>) =>
                last.instr_char = 108

\* a run ended by the KeyError of a header unit 1 without EXTNAME
C2_Witness ==
    /\ pc = "error"
    /\ err = "KeyError"
    /\ last.called
    /\ "EXTNAME" \notin last.hdr.keys

\* the paths of the attempts of `last` whose renderer exited with status 0
SucceededPaths ==
    LET S == {k \in 1..Len(last.attempts) : last.attempts[k].rc = 0}
    IN  IF S = {} THEN <<>>
        ELSE IF S = {1} THEN <<last.attempts[1].path>>
        ELSE IF S = {2} THEN <<last.attempts[2].path>>
        ELSE <<last.attempts[1].path, last.attempts[2].path>>

\* C3: generate_image_previews always attempts both profiles, _thumb/128 then
\* full size/-1, and returns exactly the paths <output_dir>/<base><suffix>.jpg of
\* the profiles that succeeded; a failed profile's path is absent.
C3_Claim ==
    (last.called /\ last.class = "Imaging") =>
        /\ Len(last.attempts) = 2
        /\ last.attempts[1].suffix = <<95,116,104,117,109,98>> /\ last.attempts[1].size = 128
        /\ last.attempts[2].suffix = <<>> /\ last.attempts[2].size = -1
        /\ \A k \in 1..2 :
              last.attempts[k].path =
                  [dir |-> OutputDirFor(last.input),
                   name |-> last.base \o last.attempts[k].suffix \o <<46,106,112,103>>]
        /\ last.returned = SucceededPaths

\* the errors of the transfer layer
TransferErrors == {"FileNotFoundError", "OSError", "UploadError"}

\* the statement the run is at can be executed (the guard of its action holds)
CanStep ==
    \/ pc = "main"
    \/ pc = "gen" /\ idx <= Len(input_paths) /\ headers # {}
    \/ pc = "gen" /\ idx > Len(input_paths) /\ mode \in {"local", "s3"}
    \/ pc = "copy" /\ output_paths # <<>>
    \/ pc = "upload" /\ Len(uploads) < Len(previews)

\* C4: a classification of Unknown or a renderer failure never ends the run: a
\* run ends in error only by an unreadable header or a failed transfer; every
\* call on a readable header returns and the loop goes on to the next input;
\* the run is never stuck before its end; and at its normal end every
\* enumerated input has been processed, once and in order.
C4_NotFatal ==
    /\ (pc = "error") => (err \in {"IndexError", "KeyError"} \cup TransferErrors)
    /\ (last.called /\ HeaderReadable(last.hdr)) =>
          /\ pc \in {"gen", "copy"}
          /\ processed[Len(processed)].input = last.input
          /\ idx = Len(processed) + 1
    /\ (pc = "done") =>
          /\ Len(processed) = Len(input_paths)
          /\ \A k \in 1..Len(processed) : processed[k].input = input_paths[k]
    /\ (pc \notin {"done", "error"}) => CanStep

\* a run that ended normally after an Unknown input and a failed rendering
C4_Witness ==
    /\ pc = "done"
    /\ \E j, k \in 1..Len(processed) :
          processed[j].outcome = "Unknown" /\ processed[k].outcome = "RenderFailure"

\* the *.png and *.jpg files of the previews directory
PreviewFiles ==
    {p \in DOMAIN fs :
        /\ p.dir = PreviewDirOf(cwd, ipppssoot)
        /\ \/ EndsWith(p.name, <<46,112,110,103>>)
           \/ EndsWith(p.name, <<46,106,112,103>>)}

\* C5: in s3 mode no upload starts before generate_previews has returned for the
\* last input; the batch is all *.png and *.jpg of the previews directory in
\* ascending order, and the uploads are that batch, one each, in that order.
C5_BatchAfterGeneration ==
    (mode = "s3") =>
        /\ (pc = "upload" \/ uploads # <<>>) =>
              /\ idx = Len(input_paths) + 1
              /\ Len(processed) = Len(input_paths)
              /\ {previews[k] : k \in 1..Len(previews)} = PreviewFiles
              /\ Len(previews) = Cardinality(PreviewFiles)
              /\ \A j, k \in 1..Len(previews) :
                    j < k => LexLess(previews[j].name, previews[k].name)
        /\ Len(uploads) <= Len(previews)
        /\ \A k \in 1..Len(uploads) : uploads[k].preview = previews[k]
        /\ (pc = "done") => Len(uploads) = Cardinality(PreviewFiles)

\* a finished s3 run that uploaded a *.jpg and, after it, a *.png
C5_Witness ==
    /\ mode = "s3"
    /\ pc = "done"
    /\ \E j, k \in 1..Len(uploads) :
          /\ j < k
          /\ EndsWith(uploads[j].preview.name, <<46,106,112,103>>)
          /\ EndsWith(uploads[k].preview.name, <<46,112,110,103>>)

\* "hstdp-batch-outputs"
DocBucket == <<104,115,116,100,112,45,98,97,116,99,104,45,111,117,116,112,117,116,115>>

\* "data/stis/odfa01030/previews"
DocKeyPrefix ==
    <<100,97,116,97,47,115,116,105,115,47,111,100,102,97,48,49,48,51,48,47,112,114,101,118,
      105,101,119,115>>

\* C6: every upload goes to the bucket named by the first segment after the
\* scheme, under the key <key prefix>/<basename>; for the destination
\* s3://hstdp-batch-outputs/data/stis/odfa01030/previews/ the bucket is
\* hstdp-batch-outputs and the key is data/stis/odfa01030/previews/<basename>.
C6_Claim ==
    \A k \in 1..Len(uploads) :
        /\ uploads[k].bucket = DocBucket
        /\ uploads[k].objectname = DocKeyPrefix \o <<47>> \o uploads[k].preview.name

\* C7: in local mode the files listed after a successful spectral rendering are
\* copied from the input directory to destination/<basename>, whatever the
\* working directory is.
C7_Claim ==
    (mode = "local" /\ listed) =>
        \A k \in 1..Len(copies) :
            /\ copies[k].src = [dir |-> InDir, name |-> copies[k].path.name]
            /\ copies[k].dst.name = copies[k].path.name
            /\ copies[k].result # "FileNotFoundError"

\* C8: every file handed to an upload exists and is not empty.
C8_Claim ==
    \A k \in 1..Len(uploads) : uploads[k].exists /\ uploads[k].size > 0

\* C9: a local copy of a file onto itself raises nothing that ends the run and
\* changes no file; only that failure is swallowed; every other failure of a
\* copy or an upload ends the run in that error, and nothing is transferred
\* after it.
C9_TransferFailures ==
    [][ /\ (pc = "copy" /\ copies' # copies) =>
            LET c == copies'[Len(copies')]
            IN  /\ (c.src = c.dst /\ c.src \in DOMAIN fs) =>
                      (c.result = "SameFileError" /\ fs' = fs /\ pc' # "error")
                /\ (c.result = "SameFileError") => c.src = c.dst
                /\ (c.result \notin {"ok", "SameFileError"}) =>
                      (pc' = "error" /\ err' = c.result /\ fs' = fs)
                /\ (c.result = "ok") => (pc' # "error" /\ c.dst \in DOMAIN fs')
        /\ (pc = "upload" /\ uploads' # uploads) =>
            LET u == uploads'[Len(uploads')]
            IN  (u.result # "ok") <=> (pc' = "error" /\ err' = u.result)
        /\ (pc = "error") => (pc' = "error" /\ copies' = copies /\ uploads' = uploads
                                /\ fs' = fs)
      ]_vars

\* a copy of a file onto itself was made and the run went on
C9_Witness ==
    /\ pc # "error"
    /\ \E k \in 1..Len(copies) :
          copies[k].result = "SameFileError" /\ copies[k].src = copies[k].dst

\* C10: an imaging profile's file is written, and its path returned, exactly
\* when the renderer's exit status is 0.
C10_Claim ==
    (last.called /\ last.class = "Imaging") =>
        \A k \in 1..Len(last.attempts) :
            /\ (last.attempts[k].rc = 0) <=> last.attempts[k].wrote
            /\ (last.attempts[k].rc = 0) <=>
                  (\E j \in 1..Len(last.returned) : last.returned[j] = last.attempts[k].path)

====
